---- MODULE Spec2Model ----
(***************************************************************************)
(* Model of the clippy lint DURATION_SUBSEC                                *)
(* (src/tools/clippy/clippy_lints/src/duration_subsec.rs).                 *)
(*                                                                         *)
(* The program under analysis is one expression: a chain of binary         *)
(* operations ((leaf op r1) op r2) ... over a leaf that is a method call   *)
(* or a plain path.  The host's late-lint visitor calls check_expr once    *)
(* per node of the expression; check_expr hands at most one suggestion to  *)
(* the diagnostic sink.  The fixer applies a machine-applicable suggestion *)
(* and the pass runs again on the rewritten expression.                    *)
(***************************************************************************)
EXTENDS Integers, Sequences, FiniteSets, TLC

VARIABLES
    tree,      \* the expression being linted: [leaf, divs]
    todo,      \* nodes the visitor has not yet handed to check_expr in this pass
    sink,      \* diagnostics handed to span_lint_and_sugg in this pass, in order
    last,      \* the latest check_expr invocation: node and the steps it ran
    prev,      \* diagnostics of the previous complete pass over the same tree
    runs,      \* complete passes over the unchanged tree before the current one
    applied,   \* suggestions applied to the expression so far
    origin     \* the expression as it was first written

vars == <<tree, todo, sink, last, prev, runs, applied, origin>>

---------------------------------------------------------------------------
(* Bounds of the model *)

\* nested binary operations over the leaf, general specification
MaxDepth == 1
\* nested divisions over the accessor call, chain specification
MaxChain == 2
\* repeated passes over an unchanged expression
MaxRuns == 1

---------------------------------------------------------------------------
(* Types, spans and expressions of the host compiler *)

TyDuration == [kind |-> "Adt", did |-> "Duration"]
TyInstant == [kind |-> "Adt", did |-> "Instant"]
TyRefDuration == [kind |-> "Ref", inner |-> TyDuration]
\* a type the oracle cannot name: an unresolved generic parameter
TyParam == [kind |-> "Param"]

\* receiver expressions as written: a bare identifier, a field access, a
\* parenthesized expression, each with the static type the context gives it
Receivers ==
    { [text |-> "d", ty |-> TyDuration],
      [text |-> "self.elapsed", ty |-> TyRefDuration],
      [text |-> "(a + b)", ty |-> TyDuration],
      [text |-> "start", ty |-> TyInstant],
      [text |-> "t", ty |-> TyParam] }

MethodNames == {"subsec_nanos", "subsec_micros", "subsec_millis", "as_secs"}

\* a receiver expression; its span says whether it comes from a macro
\* expansion and whether its source text can be read back
RecvExpr(r, exp, avail) ==
    [kind |-> "Path", ty |-> r.ty,
     span |-> [text |-> r.text, from_expansion |-> exp, snippet |-> avail]]

\* an extra argument of a method call
ExtraArg == [kind |-> "Lit", lit |-> [kind |-> "Int", value |-> 3]]

\* ExprKind::MethodCall(method_path, args, _): args[1] is the receiver
MethodCall(name, recv, extra) ==
    [kind |-> "MethodCall", method |-> name,
     args |-> IF extra THEN <<recv, ExtraArg>> ELSE <<recv>>]

PathLeaf == [kind |-> "Path", ty |-> [kind |-> "Adt", did |-> "u32"]]

Leaves ==
    {PathLeaf} \cup
    { MethodCall(name, RecvExpr(r, exp, avail), extra) :
        name \in MethodNames, r \in Receivers,
        exp \in BOOLEAN, avail \in BOOLEAN, extra \in BOOLEAN }

IntLit(v) == [kind |-> "Lit", lit |-> [kind |-> "Int", value |-> v]]

\* right operands: integer literals (0, a non-key, the keys, one above
\* nanoseconds-per-second), a negated literal of type i16, a string literal,
\* a runtime local, and a constant expression whose folding overflows
Rights ==
    { IntLit(0), IntLit(7), IntLit(1000), IntLit(1000000), IntLit(2000000000),
      [kind |-> "Unary", op |-> "Neg", bits |-> 16, operand |-> IntLit(1000)],
      [kind |-> "Lit", lit |-> [kind |-> "Str"]],
      [kind |-> "Path", res |-> "Local"],
      [kind |-> "Binary", op |-> "Add", overflows |-> TRUE] }

BinOps == {"Div", "Rem"}

Levels == [op : BinOps, right : Rights]

SeqsUpTo(S, n) == UNION { [1..k -> S] : k \in 0..n }

\* the nodes of the expression: 0 is the leaf, i >= 1 the i-th binary operation
Nodes(t) == 0..Len(t.divs)

RECURSIVE ExprAt(_, _)
ExprAt(t, i) ==
    IF i = 0 THEN t.leaf
    ELSE [kind |-> "Binary", op |-> t.divs[i].op, left |-> ExprAt(t, i - 1),
          right |-> t.divs[i].right, span |-> i]

---------------------------------------------------------------------------
(* Collaborators consumed from the host and from clippy_utils *)

None == [some |-> FALSE]
Some(v) == [some |-> TRUE, v |-> v]

\* typeck_results().expr_ty(e): the static type recorded for an expression
expr_ty(e) == e.ty

\* Ty::peel_refs: strip every layer of reference
RECURSIVE peel_refs(_)
peel_refs(ty) == IF ty.kind = "Ref" THEN peel_refs(ty.inner) ELSE ty

\* is_type_diagnostic_item: an ADT whose definition carries the diagnostic item
is_type_diagnostic_item(ty, item) == ty.kind = "Adt" /\ ty.did = item

\* two's complement bit pattern of a negative value of a type `bits` wide
unsext(v, bits) == IF v < 0 THEN v + 2 ^ bits ELSE v

\* clippy_utils::consts::constant: Some(Constant) for a foldable expression,
\* None for a runtime value and for a fold that overflows.  Constant::Int
\* holds the bit pattern of the value.
constant(e) ==
    CASE e.kind = "Lit" /\ e.lit.kind = "Int" ->
            Some([kind |-> "Int", value |-> e.lit.value])
      [] e.kind = "Lit" /\ e.lit.kind # "Int" -> Some([kind |-> e.lit.kind])
      [] e.kind = "Unary" ->
            Some([kind |-> "Int", value |-> unsext(0 - e.operand.lit.value, e.bits)])
      [] OTHER -> None

\* snippet_opt: the source text under a span, when it can be read
snippet_opt(span) == IF span.snippet THEN Some(span.text) ELSE None

\* snippet_with_applicability(cx, span, default, &mut applicability): the text
\* under the span or the default, and the applicability it leaves behind
snippet_with_applicability(span, default, applicability) ==
    LET a1 == IF applicability # "Unspecified" /\ span.from_expansion
              THEN "MaybeIncorrect" ELSE applicability
        s == snippet_opt(span)
    IN  IF s.some
        THEN [text |-> s.v, applicability |-> a1]
        ELSE [text |-> default,
              applicability |-> IF a1 = "MachineApplicable"
                                THEN "HasPlaceholders" ELSE a1]

---------------------------------------------------------------------------
(* check_expr *)

\* the match arms of lines 54-55 with their order mixed up
suggested_fn_swapped(name, divisor) ==
    CASE (name = "subsec_micros" /\ divisor = 1000)
         \/ (name = "subsec_nanos" /\ divisor = 1000) -> Some("subsec_millis")
      [] name = "subsec_nanos" /\ divisor = 1000000 -> Some("subsec_micros")
      [] OTHER -> None

\* an arm that forgets to look at the divisor
suggested_fn_loose(name, divisor) ==
    CASE (name = "subsec_micros" /\ divisor = 1000)
         \/ (name = "subsec_nanos" /\ divisor = 1000000) -> Some("subsec_millis")
      [] name = "subsec_nanos" -> Some("subsec_micros")
      [] OTHER -> None

\* an arm whose target is the accessor the chain starts from
suggested_fn_cyclic(name, divisor) ==
    CASE name = "subsec_nanos" /\ divisor = 1000000 -> Some("subsec_millis")
      [] name = "subsec_micros" /\ divisor = 1000 -> Some("subsec_nanos")
      [] name = "subsec_nanos" /\ divisor = 1000 -> Some("subsec_micros")
      [] OTHER -> None

\* lines 53-57: the rewrite table; None is the early return
suggested_fn(name, divisor) ==
    CASE (name = "subsec_micros" /\ divisor = 1000)
         \/ (name = "subsec_nanos" /\ divisor = 1000000) -> Some("subsec_millis")
      [] name = "subsec_nanos" /\ divisor = 1000 -> Some("subsec_micros")
      [] OTHER -> None

\* a divisor that falls back to a default when the operand does not fold
Divisor_or_default(right) ==
    LET c == constant(right)
    IN  IF c.some /\ c.v.kind = "Int" THEN Some(c.v.value) ELSE Some(1000)

\* line 51: if let Some((Constant::Int(divisor), _)) = constant(cx, .., right)
Divisor(right) ==
    LET c == constant(right)
    IN  IF c.some /\ c.v.kind = "Int" THEN Some(c.v.value) ELSE None

\* line 63: the lint message (the back quotes around the call are not
\* characters of a TLA+ string and are left out)
lint_msg(fn) == "calling " \o fn \o "() is more concise than this calculation"

\* the replacement built from the replaced method's own name
sugg_text_same_name(snip, fn, method) == snip \o "." \o method \o "()"

\* lines 65-69: format!("{}.{}()", snippet, suggested_fn)
sugg_text(snip, fn, method) == snip \o "." \o fn \o "()"

\* the applicability read before the snippet call has adjusted it
emit_fixed_applicability(expr, fn) ==
    LET snip == snippet_with_applicability(expr.left.args[1].span, "_",
                                           "MachineApplicable")
    IN  [lint |-> "DURATION_SUBSEC", span |-> expr.span, msg |-> lint_msg(fn),
         help |-> "try", sugg |-> sugg_text(snip.text, fn, expr.left.method),
         applicability |-> "MachineApplicable"]

\* lines 58-71: the suggestion handed to span_lint_and_sugg
emit(expr, fn) ==
    LET snip == snippet_with_applicability(expr.left.args[1].span, "_",
                                           "MachineApplicable")
    IN  [lint |-> "DURATION_SUBSEC", span |-> expr.span, msg |-> lint_msg(fn),
         help |-> "try", sugg |-> sugg_text(snip.text, fn, expr.left.method),
         applicability |-> snip.applicability]

\* what one invocation did: the steps it ran and what it reported
Ret(steps, diags) == [steps |-> steps, diags |-> diags]

\* the chain with the divisor folded before the receiver's type is checked,
\* and the table consulted whatever the type check said
check_expr_unordered(expr) ==
    IF ~(expr.kind = "Binary" /\ expr.op = "Div")
    THEN Ret(<<"shape">>, <<>>)
    ELSE IF expr.left.kind # "MethodCall"
    THEN Ret(<<"shape">>, <<>>)
    ELSE LET d == Divisor(expr.right)
             isDur == is_type_diagnostic_item(
                          peel_refs(expr_ty(expr.left.args[1])), "Duration")
         IN  IF ~d.some
             THEN Ret(<<"shape", "constant">>, <<>>)
             ELSE IF ~isDur
             THEN Ret(<<"shape", "constant", "type">>, <<>>)
             ELSE LET fn == suggested_fn(expr.left.method, d.v)
                  IN  IF ~fn.some
                      THEN Ret(<<"shape", "constant", "type", "lookup">>, <<>>)
                      ELSE Ret(<<"shape", "constant", "type", "lookup",
                                 "snippet", "sink">>, <<emit(expr, fn.v)>>)

\* lines 46-74: check_expr, the if_chain and its then-block
check_expr(expr) ==
    IF ~(expr.kind = "Binary" /\ expr.op = "Div")
    THEN Ret(<<"shape">>, <<>>)
    ELSE IF expr.left.kind # "MethodCall"
    THEN Ret(<<"shape">>, <<>>)
    ELSE IF ~is_type_diagnostic_item(
                 peel_refs(expr_ty(expr.left.args[1])), "Duration")
    THEN Ret(<<"shape", "type">>, <<>>)
    ELSE LET d == Divisor(expr.right)
         IN  IF ~d.some
             THEN Ret(<<"shape", "type", "constant">>, <<>>)
             ELSE LET fn == suggested_fn(expr.left.method, d.v)
                  IN  IF ~fn.some
                      THEN Ret(<<"shape", "type", "constant", "lookup">>, <<>>)
                      ELSE Ret(<<"shape", "type", "constant", "lookup",
                                 "snippet", "sink">>, <<emit(expr, fn.v)>>)

---------------------------------------------------------------------------
(* The lint pass over the expression, and the fixer *)

NoCall == [node |-> -1, steps |-> <<>>, emitted |-> 0]

SinkSet == { sink[i] : i \in 1..Len(sink) }

StartOn(t) ==
    /\ tree = t
    /\ origin = t
    /\ todo = Nodes(t)
    /\ sink = <<>>
    /\ last = NoCall
    /\ prev = {}
    /\ runs = 0
    /\ applied = 0

Init == \E t \in [leaf : Leaves, divs : SeqsUpTo(Levels, MaxDepth)] : StartOn(t)

\* a pass that keeps the diagnostics it has reported and reports none twice
visit_expr_seen ==
    \E n \in todo :
        LET r == check_expr(ExprAt(tree, n))
            shown == SelectSeq(r.diags, LAMBDA d : d \notin prev)
        IN  /\ sink' = sink \o shown
            /\ last' = [node |-> n, steps |-> r.steps, emitted |-> Len(shown)]
            /\ todo' = todo \ {n}
            /\ UNCHANGED <<tree, prev, runs, applied, origin>>

\* the late-lint visitor reaches a node and calls check_expr on it
visit_expr ==
    \E n \in todo :
        LET r == check_expr(ExprAt(tree, n))
        IN  /\ sink' = sink \o r.diags
            /\ last' = [node |-> n, steps |-> r.steps, emitted |-> Len(r.diags)]
            /\ todo' = todo \ {n}
            /\ UNCHANGED <<tree, prev, runs, applied, origin>>

\* the lint pass runs again over the unchanged expression
Rerun ==
    /\ todo = {}
    /\ runs < MaxRuns
    /\ prev' = SinkSet
    /\ runs' = runs + 1
    /\ sink' = <<>>
    /\ last' = NoCall
    /\ todo' = Nodes(tree)
    /\ UNCHANGED <<tree, applied, origin>>

\* the fixer replaces the flagged expression by a machine-applicable
\* suggestion; the replacement text parses as a call without arguments
ApplyFix ==
    /\ todo = {}
    /\ \E i \in 1..Len(sink) :
         LET d == sink[i]
             recv == ExprAt(tree, d.span).left.args[1]
         IN  /\ d.applicability = "MachineApplicable"
             /\ d.span = 1
             /\ \E name \in MethodNames :
                  /\ d.sugg = recv.span.text \o "." \o name \o "()"
                  /\ tree' = [leaf |-> MethodCall(name, recv, FALSE),
                              divs |-> Tail(tree.divs)]
                  /\ todo' = Nodes(tree')
    /\ sink' = <<>>
    /\ last' = NoCall
    /\ prev' = {}
    /\ runs' = 0
    /\ applied' = applied + 1
    /\ UNCHANGED origin

Next == visit_expr \/ Rerun \/ ApplyFix

Spec == Init /\ [][Next]_vars

\* the chain specification: nested divisions by a few constants over any leaf
ChainRights == {IntLit(7), IntLit(1000), IntLit(1000000)}

InitChain ==
    \E t \in [leaf : Leaves,
              divs : SeqsUpTo([op : {"Div"}, right : ChainRights], MaxChain)] :
        StartOn(t)

SpecChain == InitChain /\ [][Next]_vars

---------------------------------------------------------------------------
(* The duration type's accessors, for the meaning of a rewrite *)

NANOS_PER_MICRO == 1000
NANOS_PER_MILLI == 1000000

\* Duration::subsec_nanos, subsec_micros, subsec_millis of a duration whose
\* sub-second part is n nanoseconds
Accessor(name, n) ==
    CASE name = "subsec_nanos" -> n
      [] name = "subsec_micros" -> n \div NANOS_PER_MICRO
      [] name = "subsec_millis" -> n \div NANOS_PER_MILLI

\* sub-second nanosecond remainders: the ends of the range and both sides of
\* every unit boundary
NanosSamples == {0, 999, 1000, 999999, 1000000, 1999999, 999999999}

\* results a method that is not one of the accessors may return
U32Samples == {0, 5000}

---------------------------------------------------------------------------
(* Vocabulary of the properties *)

\* the rewrite table of the specification, section 4.3
TableKeys ==
    { <<"subsec_nanos", 1000>>, <<"subsec_nanos", 1000000>>,
      <<"subsec_micros", 1000>> }

TableTarget(k) ==
    IF k = <<"subsec_nanos", 1000>> THEN "subsec_micros" ELSE "subsec_millis"

Visited == Nodes(tree) \ todo

DiagsAt(n) == { i \in 1..Len(sink) : sink[i].span = n }

IsDiv(e) == e.kind = "Binary" /\ e.op = "Div"

LeftIsCall(e) == e.left.kind = "MethodCall"

RecvIsDuration(e) ==
    LET ty == e.left.args[1].ty
    IN  \/ ty = TyDuration
        \/ ty = TyRefDuration

\* the integer the right operand resolves to, if it resolves to one
ResolvesToInt(e) == constant(e.right).some /\ constant(e.right).v.kind = "Int"
Resolved(e) == constant(e.right).v.value

KeyOf(e) == <<e.left.method, Resolved(e)>>

\* the expression a diagnostic was reported on
Flagged(d) == ExprAt(tree, d.span)

\* the accessor a diagnostic's message names
Named(d, name) ==
    d.msg = "calling " \o name \o "() is more concise than this calculation"

RecvSpan(e) == e.left.args[1].span

---------------------------------------------------------------------------
(* C1 *)

\* C1: a visited division of a zero-argument accessor call on a duration
\* receiver by a constant integer that forms a table key has exactly one
\* suggestion, and that suggestion names the table's target accessor, in its
\* message and as the method of its replacement.
C1_TableTargetSuggested ==
    \A n \in Visited :
        LET e == ExprAt(tree, n)
        IN  (/\ IsDiv(e) /\ LeftIsCall(e) /\ Len(e.left.args) = 1
             /\ RecvIsDuration(e) /\ ResolvesToInt(e) /\ KeyOf(e) \in TableKeys)
            => /\ Cardinality(DiagsAt(n)) = 1
               /\ \A i \in DiagsAt(n) :
                    /\ Named(sink[i], TableTarget(KeyOf(e)))
                    /\ sink[i].sugg \in
                         { r \o "." \o TableTarget(KeyOf(e)) \o "()" :
                             r \in {RecvSpan(e).text, "_"} }

C1_Witness ==
    /\ todo = {}
    /\ Len(tree.divs) = 1
    /\ tree.leaf = MethodCall("subsec_nanos",
                              RecvExpr([text |-> "d", ty |-> TyDuration],
                                       FALSE, TRUE), FALSE)
    /\ tree.divs[1] = [op |-> "Div", right |-> IntLit(1000000)]
    /\ Len(sink) = 1
    /\ sink[1].sugg = "d.subsec_millis()"

---------------------------------------------------------------------------
(* C2 *)

\* C2: every diagnostic is reported on a division whose accessor name and
\* resolved divisor form one of the three table keys; a visited division whose
\* pair is not a key (divisor 0, the bit pattern of a negative value, a value
\* above nanoseconds-per-second, an accessor outside the table) has none.
C2_NoDiagnosticOffTable ==
    /\ \A i \in 1..Len(sink) :
         LET e == Flagged(sink[i])
         IN  IsDiv(e) /\ LeftIsCall(e) /\ ResolvesToInt(e) /\ KeyOf(e) \in TableKeys
    /\ \A n \in Visited :
         LET e == ExprAt(tree, n)
         IN  (IsDiv(e) /\ LeftIsCall(e) /\ ResolvesToInt(e) /\ KeyOf(e) \notin TableKeys)
             => DiagsAt(n) = {}

C2_Witness ==
    /\ todo = {}
    /\ Len(tree.divs) = 1
    /\ tree.leaf = MethodCall("subsec_nanos",
                              RecvExpr([text |-> "d", ty |-> TyDuration],
                                       FALSE, TRUE), FALSE)
    /\ tree.divs[1].op = "Div"
    /\ tree.divs[1].right = IntLit(2000000000)
    /\ sink = <<>>

---------------------------------------------------------------------------
(* C3 *)

\* the values the left operand of a flagged division may have on a duration
\* with n sub-second nanoseconds: the accessor's value for a call without
\* arguments; a call with arguments is some other method of that name
LeftValues(left, n) ==
    IF Len(left.args) = 1 THEN {Accessor(left.method, n)} ELSE U32Samples

\* C3: soundness: for every reported rewrite and every sub-second remainder
\* n, the original division and the suggested accessor have the same value.
C3_RewriteKeepsValue ==
    \A i \in 1..Len(sink) :
        LET e == Flagged(sink[i])
        IN  \A name \in MethodNames :
                Named(sink[i], name) =>
                    \A n \in NanosSamples :
                        \A v \in LeftValues(e.left, n) :
                            v \div Resolved(e) = Accessor(name, n)

\* The same on calls without arguments only: there the three rules are exact,
\* n div 1000 = micros, n div 1000000 = millis, micros div 1000 = millis.
AccessorRewriteKeepsValue ==
    \A i \in 1..Len(sink) :
        LET e == Flagged(sink[i])
        IN  Len(e.left.args) = 1 =>
                \A name \in MethodNames :
                    Named(sink[i], name) =>
                        \A n \in NanosSamples :
                            Accessor(e.left.method, n) \div Resolved(e)
                                = Accessor(name, n)

---------------------------------------------------------------------------
(* C4 *)

\* C4 as stated: every suggestion handed to the sink is MachineApplicable.
C4_AlwaysMachineApplicable ==
    \A i \in 1..Len(sink) : sink[i].applicability = "MachineApplicable"

\* C4, amended: a suggestion is MachineApplicable exactly when the receiver's
\* span is not from a macro expansion and its source text was read; it is
\* MaybeIncorrect when the span is from an expansion and HasPlaceholders when
\* only the text is missing.
C4_ApplicabilityFollowsSnippet ==
    \A i \in 1..Len(sink) :
        LET span == RecvSpan(Flagged(sink[i]))
        IN  sink[i].applicability =
                IF span.from_expansion THEN "MaybeIncorrect"
                ELSE IF ~span.snippet THEN "HasPlaceholders"
                ELSE "MachineApplicable"

C4_Witness ==
    \E i \in 1..Len(sink) :
        /\ ~RecvSpan(Flagged(sink[i])).snippet
        /\ ~RecvSpan(Flagged(sink[i])).from_expansion
        /\ sink[i].applicability = "HasPlaceholders"

---------------------------------------------------------------------------
(* C5 *)

\* C5 as stated: the replacement is the receiver's own source text followed
\* by the target call, and nothing is emitted when that text is unavailable.
C5_ReceiverTextOrNothing ==
    \A i \in 1..Len(sink) :
        LET e == Flagged(sink[i])
        IN  /\ RecvSpan(e).snippet
            /\ \E name \in MethodNames :
                 /\ Named(sink[i], name)
                 /\ sink[i].sugg = RecvSpan(e).text \o "." \o name \o "()"

\* C5, amended: the replacement is snippet.target() where the snippet is the
\* receiver's source text when it can be read and the placeholder "_" when
\* it cannot; the suggestion is emitted in both cases.
C5_ReceiverTextOrPlaceholder ==
    /\ \A i \in 1..Len(sink) :
         LET e == Flagged(sink[i])
             snip == IF RecvSpan(e).snippet THEN RecvSpan(e).text ELSE "_"
         IN  \E name \in MethodNames :
                 /\ Named(sink[i], name)
                 /\ sink[i].sugg = snip \o "." \o name \o "()"
    /\ \A n \in Visited :
         LET e == ExprAt(tree, n)
         IN  (/\ IsDiv(e) /\ LeftIsCall(e) /\ RecvIsDuration(e)
              /\ ResolvesToInt(e) /\ KeyOf(e) \in TableKeys
              /\ ~RecvSpan(e).snippet)
             => DiagsAt(n) # {}

C5_Witness ==
    \E i \in 1..Len(sink) :
        /\ ~RecvSpan(Flagged(sink[i])).snippet
        /\ RecvSpan(Flagged(sink[i])).text = "(a + b)"
        /\ sink[i].sugg = "_.subsec_micros()"

---------------------------------------------------------------------------
(* C6 *)

\* C6: a diagnostic is reported only on a division whose left operand is a
\* method call with no argument besides the receiver, on a receiver whose
\* type is the duration type.
C6_OnlyZeroArgDurationCalls ==
    \A i \in 1..Len(sink) :
        LET e == Flagged(sink[i])
        IN  /\ LeftIsCall(e)
            /\ Len(e.left.args) = 1
            /\ RecvIsDuration(e)

---------------------------------------------------------------------------
(* C7 *)

\* C7: a visited binary expression whose right operand does not resolve to
\* an integer constant (a runtime local, a fold that overflows, a constant
\* that is not an integer) has no diagnostic, whatever its left operand, and
\* the invocation on it ended without running the lookup or the emission.
C7_NoDiagnosticWithoutConstant ==
    /\ \A n \in Visited :
         LET e == ExprAt(tree, n)
         IN  (e.kind = "Binary" /\ ~ResolvesToInt(e)) => DiagsAt(n) = {}
    /\ (last.node >= 1 /\ ~ResolvesToInt(ExprAt(tree, last.node)))
       => /\ last.emitted = 0
          /\ \A k \in 1..Len(last.steps) :
               last.steps[k] \in {"shape", "type", "constant"}

C7_Witness ==
    /\ last.node = 1
    /\ last.steps = <<"shape", "type", "constant">>
    /\ tree.leaf = MethodCall("subsec_nanos",
                              RecvExpr([text |-> "d", ty |-> TyDuration],
                                       FALSE, TRUE), FALSE)
    /\ tree.divs[1] = [op |-> "Div", right |-> [kind |-> "Path", res |-> "Local"]]
    /\ sink = <<>>

---------------------------------------------------------------------------
(* C8 *)

---------------------------------------------------------------------------
(* C9 *)

Pipeline == <<"shape", "type", "constant", "lookup", "snippet", "sink">>

Ran(step) == \E k \in 1..Len(last.steps) : last.steps[k] = step

\* C9: the steps of one invocation are an initial part of the fixed order
\* shape, type, constant, lookup, snippet, sink; a step runs exactly when
\* every step before it succeeded; the sink is called at most once, exactly
\* when shape, type, constant and lookup all succeeded.
C9_PipelineShortCircuits ==
    last.node >= 0 =>
        LET e == ExprAt(tree, last.node)
            shapeOk == IsDiv(e) /\ LeftIsCall(e)
            typeOk == shapeOk /\ RecvIsDuration(e)
            constOk == typeOk /\ ResolvesToInt(e)
            hit == constOk /\ KeyOf(e) \in TableKeys
        IN  /\ Len(last.steps) \in 1..Len(Pipeline)
            /\ \A k \in 1..Len(last.steps) : last.steps[k] = Pipeline[k]
            /\ Ran("type") <=> shapeOk
            /\ Ran("constant") <=> typeOk
            /\ Ran("lookup") <=> constOk
            /\ Ran("snippet") <=> hit
            /\ Ran("sink") <=> hit
            /\ last.emitted = IF hit THEN 1 ELSE 0
            /\ Cardinality(DiagsAt(last.node)) = last.emitted

C9_Witness ==
    /\ last.node = 1
    /\ last.steps = Pipeline
    /\ last.emitted = 1
    /\ Len(sink) = 1

---------------------------------------------------------------------------
(* C10 *)

Rank(name) ==
    CASE name = "subsec_nanos" -> 0
      [] name = "subsec_micros" -> 1
      [] name = "subsec_millis" -> 2
      [] OTHER -> 3

\* nothing is left for the fixer to apply
Quiescent ==
    /\ todo = {}
    /\ \A i \in 1..Len(sink) : sink[i].applicability # "MachineApplicable"

\* a receiver whose text the fixer can use
Plain(leaf) ==
    /\ leaf.kind = "MethodCall"
    /\ Len(leaf.args) = 1
    /\ RecvIsDuration([left |-> leaf])
    /\ leaf.args[1].span.snippet
    /\ ~leaf.args[1].span.from_expansion

NanosBy(t, ds) ==
    /\ Plain(t.leaf)
    /\ t.leaf.method = "subsec_nanos"
    /\ t.divs = [k \in 1..Len(ds) |-> [op |-> "Div", right |-> IntLit(ds[k])]]

\* C10: applying suggestions terminates.  Every application removes one
\* division, so there are at most as many as the expression had divisions;
\* only the innermost division is ever flagged, and a method call never is;
\* every rule leads from an accessor to a coarser one, none to subsec_nanos
\* and none from subsec_millis; recv.subsec_nanos() / 1000 / 1000 comes to
\* rest after two applications at recv.subsec_millis(), with no diagnostic,
\* where recv.subsec_nanos() / 1000000 comes to rest after one.
C10_FixingTerminates ==
    /\ applied + Len(tree.divs) = Len(origin.divs)
    /\ \A i \in 1..Len(sink) :
         /\ sink[i].span = 1
         /\ \A name \in MethodNames :
              Named(sink[i], name) =>
                  /\ Rank(name) > Rank(Flagged(sink[i]).left.method)
                  /\ name # "subsec_nanos"
                  /\ Flagged(sink[i]).left.method # "subsec_millis"
    /\ (tree.divs = <<>> /\ todo = {}) => sink = <<>>
    /\ NanosBy(origin, <<1000, 1000>>) =>
         /\ applied <= 2
         /\ Quiescent =>
              /\ applied = 2
              /\ sink = <<>>
              /\ tree = [leaf |-> MethodCall("subsec_millis",
                                             origin.leaf.args[1], FALSE),
                         divs |-> <<>>]
    /\ (NanosBy(origin, <<1000000>>) /\ Quiescent) =>
              /\ applied = 1
              /\ sink = <<>>
              /\ tree = [leaf |-> MethodCall("subsec_millis",
                                             origin.leaf.args[1], FALSE),
                         divs |-> <<>>]

C10_Witness ==
    /\ NanosBy(origin, <<1000, 1000>>)
    /\ applied = 2
    /\ Quiescent
    /\ tree.divs = <<>>
    /\ tree.leaf.method = "subsec_millis"

====
